---- MODULE Spec2Model ----
(***************************************************************************)
(* hello-socks: a TLS-tunnelled SOCKS relay.                               *)
(*                                                                         *)
(*   client-socks/client-socks.go   serve, proxy.pipe, proxy.err           *)
(*   server (unnamed/part_002)      Credentials.Valid, newAuthenticator,   *)
(*                                  resolveNames, authenticator.Allow      *)
(*                                                                         *)
(* The three components share no state, so each has a specification of its *)
(* own (SpecRelay, SpecCred, SpecAuth) over the same variables: the other  *)
(* components' variables stay at their initial value.  SpecRelayFair is    *)
(* SpecRelay with the fairness of the scheduler and of the deadlines.      *)
(***************************************************************************)
EXTENDS Integers, Sequences, FiniteSets, TLC

VARIABLES
    \* ---- relay session (client-socks.go) ----
    ctxErr,         \* ctx.Err() != nil : the shared context was cancelled
    servePc,        \* position of serve
    localConn,      \* "open" | "closed"
    remoteConn,     \* "none" | "open" | "closed"
    pc,             \* position of each pipe goroutine
    n,              \* each pipe's local n
    perr,           \* arguments of each pipe's call of p.err
    avail,          \* bytes each source will still yield before end-of-stream
    sentBytes,      \* proxy.sentBytes
    receivedBytes,  \* proxy.receivedBytes
    erred,          \* proxy.erred
    wait,           \* proxy.wait : "open" | "closed"
    log,            \* the p.log.Warn records written by proxy.err
    report,         \* the "request served" record written by serve
    crashed,        \* an unrecovered panic in a goroutine ended the process
    written,        \* history: bytes each destination actually took
    closes,         \* history: number of close(p.wait) executed
    trigger,        \* history: the first call of p.err
    \* ---- credential check (part_002, Credentials.Valid) ----
    disableCaching, \* Credentials.disableCaching
    htpasswd,       \* Credentials.htpasswd
    basicAuthCache, \* the go-cache instance basicAuthCache
    now,            \* wall clock, seconds
    cacheHist,      \* history: who wrote each cache entry, who passed since
    lastValid,      \* history: the last call of Valid
    \* ---- access policy (part_002, authenticator) ----
    Destinations,   \* authenticator.Destinations
    dns,            \* what net.LookupHost answers at present
    authState,      \* "unbuilt" | "failed" | "ready"
    resolvedNames,  \* authenticator.resolvedNames
    refresher,      \* the goroutine of newAuthenticator
    authLog,        \* the log.Warn records of the refresher
    racy,           \* what an unsynchronised read of resolvedNames may
                    \* yield besides the value last stored
    lastAllow       \* history: the last call of Allow

relayVars == <<ctxErr, servePc, localConn, remoteConn, pc, n, perr, avail,
               sentBytes, receivedBytes, erred, wait, log, report, crashed,
               written, closes, trigger>>
credVars  == <<disableCaching, htpasswd, basicAuthCache, now, cacheHist,
               lastValid>>
authVars  == <<Destinations, dns, authState, resolvedNames, refresher,
               authLog, racy, lastAllow>>
vars      == <<relayVars, credVars, authVars>>

None == "none"

Min(a, b) == IF a <= b THEN a ELSE b

(***************************************************************************)
(* Relay: client-socks.go                                                  *)
(***************************************************************************)

\* Bytes a source yields in one session, at most.
MaxBytes == 2

\* buff := make([]byte, 65535)
BuffSize == 65535

\* The two pipe goroutines: go p.pipe(ctx, remoteConn, localConn, true) and
\* go p.pipe(ctx, localConn, remoteConn, false).
Dirs == {"toRemote", "toLocal"}

isLocal(d) == d = "toRemote"

SrcOpen(d) == IF isLocal(d) THEN localConn = "open" ELSE remoteConn = "open"
DstOpen(d) == IF isLocal(d) THEN remoteConn = "open" ELSE localConn = "open"

EOF == "EOF"

NoErr == [msg |-> "", err |-> ""]

NoTrigger == [dir |-> None, msg |-> "", err |-> ""]

NoReport == [bytes_sent |-> -1, bytes_received |-> -1]

RelayInit ==
    /\ ctxErr = FALSE
    /\ servePc = "dial"
    /\ localConn = "open"
    /\ remoteConn = "none"
    /\ pc = [d \in Dirs |-> "unborn"]
    /\ n = [d \in Dirs |-> 0]
    /\ perr = [d \in Dirs |-> NoErr]
    /\ avail \in [Dirs -> 0..MaxBytes]
    /\ sentBytes = 0
    /\ receivedBytes = 0
    /\ erred = 0
    /\ wait = "open"
    /\ log = <<>>
    /\ report = NoReport
    /\ crashed = FALSE
    /\ written = [d \in Dirs |-> 0]
    /\ closes = 0
    /\ trigger = NoTrigger

RelayIdle ==
    /\ ctxErr = FALSE
    /\ servePc = "dial"
    /\ localConn = "open"
    /\ remoteConn = "none"
    /\ pc = [d \in Dirs |-> "unborn"]
    /\ n = [d \in Dirs |-> 0]
    /\ perr = [d \in Dirs |-> NoErr]
    /\ avail = [d \in Dirs |-> 0]
    /\ sentBytes = 0
    /\ receivedBytes = 0
    /\ erred = 0
    /\ wait = "open"
    /\ log = <<>>
    /\ report = NoReport
    /\ crashed = FALSE
    /\ written = [d \in Dirs |-> 0]
    /\ closes = 0
    /\ trigger = NoTrigger

\* util.CtxCancelOnOsSignal: the process received a signal.
CancelCtx ==
    /\ ~crashed
    /\ ~ctxErr
    /\ ctxErr' = TRUE
    /\ UNCHANGED <<servePc, localConn, remoteConn, pc, n, perr, avail,
                   sentBytes, receivedBytes, erred, wait, log, report,
                   crashed, written, closes, trigger>>
    /\ UNCHANGED <<credVars, authVars>>

\* serve, lines 83-91: the dial succeeds, or fails and serve returns through
\* its deferred close of localConn.
ServeDial ==
    /\ ~crashed
    /\ servePc = "dial"
    /\ \/ /\ remoteConn' = "open"
          /\ servePc' = "go1"
       \/ /\ remoteConn' = remoteConn
          /\ servePc' = "closeLocal"
    /\ UNCHANGED <<ctxErr, localConn, pc, n, perr, avail, sentBytes,
                   receivedBytes, erred, wait, log, report, crashed,
                   written, closes, trigger>>
    /\ UNCHANGED <<credVars, authVars>>

\* serve, lines 93-103: the proxy is made, the deadlines set, the first pipe
\* started.
ServeGo1 ==
    /\ ~crashed
    /\ servePc = "go1"
    /\ pc' = [pc EXCEPT !["toRemote"] = "loop"]
    /\ servePc' = "go2"
    /\ UNCHANGED <<ctxErr, localConn, remoteConn, n, perr, avail, sentBytes,
                   receivedBytes, erred, wait, log, report, crashed,
                   written, closes, trigger>>
    /\ UNCHANGED <<credVars, authVars>>

\* serve, line 104.
ServeGo2 ==
    /\ ~crashed
    /\ servePc = "go2"
    /\ pc' = [pc EXCEPT !["toLocal"] = "loop"]
    /\ servePc' = "wait"
    /\ UNCHANGED <<ctxErr, localConn, remoteConn, n, perr, avail, sentBytes,
                   receivedBytes, erred, wait, log, report, crashed,
                   written, closes, trigger>>
    /\ UNCHANGED <<credVars, authVars>>

\* Mutant of ServeWait: serve does not block on the gate.
ServeWaitUnguarded ==
    /\ ~crashed
    /\ servePc = "wait"
    /\ servePc' = "loadSent"
    /\ UNCHANGED <<ctxErr, localConn, remoteConn, pc, n, perr, avail,
                   sentBytes, receivedBytes, erred, wait, log, report,
                   crashed, written, closes, trigger>>
    /\ UNCHANGED <<credVars, authVars>>

\* serve, line 106: <-p.wait.
ServeWait ==
    /\ ~crashed
    /\ servePc = "wait"
    /\ wait = "closed"
    /\ servePc' = "loadSent"
    /\ UNCHANGED <<ctxErr, localConn, remoteConn, pc, n, perr, avail,
                   sentBytes, receivedBytes, erred, wait, log, report,
                   crashed, written, closes, trigger>>
    /\ UNCHANGED <<credVars, authVars>>

\* serve, line 110: atomic.LoadUint64(&p.sentBytes).
ServeLoadSent ==
    /\ ~crashed
    /\ servePc = "loadSent"
    /\ report' = [bytes_sent |-> sentBytes, bytes_received |-> -1]
    /\ servePc' = "loadReceived"
    /\ UNCHANGED <<ctxErr, localConn, remoteConn, pc, n, perr, avail,
                   sentBytes, receivedBytes, erred, wait, log, crashed,
                   written, closes, trigger>>
    /\ UNCHANGED <<credVars, authVars>>

\* serve, lines 107-116: atomic.LoadUint64(&p.receivedBytes), and the record
\* is logged.
ServeLoadReceived ==
    /\ ~crashed
    /\ servePc = "loadReceived"
    /\ report' = [report EXCEPT !.bytes_received = receivedBytes]
    /\ servePc' = "closeRemote"
    /\ UNCHANGED <<ctxErr, localConn, remoteConn, pc, n, perr, avail,
                   sentBytes, receivedBytes, erred, wait, log, crashed,
                   written, closes, trigger>>
    /\ UNCHANGED <<credVars, authVars>>

\* serve returns: defer util.SilentClose(remoteConn), line 91.
ServeCloseRemote ==
    /\ ~crashed
    /\ servePc = "closeRemote"
    /\ remoteConn' = "closed"
    /\ servePc' = "closeLocal"
    /\ UNCHANGED <<ctxErr, localConn, pc, n, perr, avail, sentBytes,
                   receivedBytes, erred, wait, log, report, crashed,
                   written, closes, trigger>>
    /\ UNCHANGED <<credVars, authVars>>

\* serve returns: defer util.SilentClose(localConn), line 81.
ServeCloseLocal ==
    /\ ~crashed
    /\ servePc = "closeLocal"
    /\ localConn' = "closed"
    /\ servePc' = "returned"
    /\ UNCHANGED <<ctxErr, remoteConn, pc, n, perr, avail, sentBytes,
                   receivedBytes, erred, wait, log, report, crashed,
                   written, closes, trigger>>
    /\ UNCHANGED <<credVars, authVars>>

\* A pipe calls p.err(message, err): the call's arguments, and the first call
\* of the session.
CallErr(d, message, e) ==
    /\ perr' = [perr EXCEPT ![d] = [msg |-> message, err |-> e]]
    /\ pc' = [pc EXCEPT ![d] = "err"]
    /\ trigger' = IF trigger = NoTrigger
                  THEN [dir |-> d, msg |-> message, err |-> e]
                  ELSE trigger

\* pipe, lines 135-138: if ctx.Err() != nil.
PipeCtx(d) ==
    /\ ~crashed
    /\ pc[d] = "loop"
    /\ IF ctxErr
       THEN CallErr(d, "context error", "context canceled")
       ELSE /\ pc' = [pc EXCEPT ![d] = "read"]
            /\ UNCHANGED <<perr, trigger>>
    /\ UNCHANGED <<ctxErr, servePc, localConn, remoteConn, n, avail,
                   sentBytes, receivedBytes, erred, wait, log, report,
                   crashed, written, closes>>
    /\ UNCHANGED <<credVars, authVars>>

\* pipe, lines 140-144: n, err := src.Read(buff[:]).  A read of a closed
\* connection fails; an open source yields at most len(buff) of the bytes it
\* still has, ends (io.EOF) when it has none, or fails (deadline, reset).  The
\* n of a failed read is dropped by the code and is not modelled.
PipeRead(d) ==
    /\ ~crashed
    /\ pc[d] = "read"
    /\ IF ~SrcOpen(d)
       THEN /\ CallErr(d, "Read failed", "closed")
            /\ UNCHANGED <<n, avail>>
       ELSE \/ /\ avail[d] > 0
               /\ \E k \in 1..Min(avail[d], BuffSize) :
                     /\ n' = [n EXCEPT ![d] = k]
                     /\ avail' = [avail EXCEPT ![d] = @ - k]
               /\ pc' = [pc EXCEPT ![d] = "write"]
               /\ UNCHANGED <<perr, trigger>>
            \/ /\ avail[d] = 0
               /\ CallErr(d, "Read failed", EOF)
               /\ UNCHANGED <<n, avail>>
            \/ /\ CallErr(d, "Read failed", "i/o")
               /\ UNCHANGED <<n, avail>>
    /\ UNCHANGED <<ctxErr, servePc, localConn, remoteConn, sentBytes,
                   receivedBytes, erred, wait, log, report, crashed,
                   written, closes>>
    /\ UNCHANGED <<credVars, authVars>>

\* pipe, lines 146-150: n, err = dst.Write(buff[:n]).  io.Writer: all n bytes
\* are taken and err is nil, or k < n bytes are taken and err is not nil.  On
\* an error the code returns without looking at the new n.
PipeWrite(d) ==
    /\ ~crashed
    /\ pc[d] = "write"
    /\ IF ~DstOpen(d)
       THEN /\ CallErr(d, "Write failed", "closed")
            /\ n' = [n EXCEPT ![d] = 0]
            /\ UNCHANGED written
       ELSE \/ /\ written' = [written EXCEPT ![d] = @ + n[d]]
               /\ pc' = [pc EXCEPT ![d] = "add"]
               /\ UNCHANGED <<n, perr, trigger>>
            \/ \E k \in 0..(n[d] - 1) :
                  /\ written' = [written EXCEPT ![d] = @ + k]
                  /\ n' = [n EXCEPT ![d] = 0]
                  /\ CallErr(d, "Write failed", "i/o")
    /\ UNCHANGED <<ctxErr, servePc, localConn, remoteConn, avail, sentBytes,
                   receivedBytes, erred, wait, log, report, crashed, closes>>
    /\ UNCHANGED <<credVars, authVars>>

\* pipe, lines 151-155: atomic.AddUint64 of n to the direction's counter.
\* (uint64: a session cannot move 2^64 bytes before its deadline.)  n is dead
\* until the next read assigns it, and is kept at 0 meanwhile; so are the
\* arguments of p.err once err has used them.
PipeAdd(d) ==
    /\ ~crashed
    /\ pc[d] = "add"
    /\ IF isLocal(d)
       THEN /\ sentBytes' = sentBytes + n[d]
            /\ UNCHANGED receivedBytes
       ELSE /\ receivedBytes' = receivedBytes + n[d]
            /\ UNCHANGED sentBytes
    /\ pc' = [pc EXCEPT ![d] = "loop"]
    /\ n' = [n EXCEPT ![d] = 0]
    /\ UNCHANGED <<ctxErr, servePc, localConn, remoteConn, perr, avail,
                   erred, wait, log, report, crashed, written, closes,
                   trigger>>
    /\ UNCHANGED <<credVars, authVars>>

\* Mutant of ErrLoad: after a call of err that found erred set, the pipe goes
\* on with its loop instead of returning.
ErrLoadResumes(d) ==
    /\ ~crashed
    /\ pc[d] = "err"
    /\ pc' = [pc EXCEPT ![d] = IF erred = 1 THEN "loop" ELSE "errLog"]
    /\ perr' = IF erred = 1 THEN [perr EXCEPT ![d] = NoErr] ELSE perr
    /\ UNCHANGED <<ctxErr, servePc, localConn, remoteConn, n, avail,
                   sentBytes, receivedBytes, erred, wait, log, report,
                   crashed, written, closes, trigger>>
    /\ UNCHANGED <<credVars, authVars>>

\* err, lines 160-162: if atomic.LoadUint32(&p.erred) == 1 { return }.  The
\* pipe then returns: "noop" when err returned here, "done" when it ran on.
ErrLoad(d) ==
    /\ ~crashed
    /\ pc[d] = "err"
    /\ pc' = [pc EXCEPT ![d] = IF erred = 1 THEN "noop" ELSE "errLog"]
    /\ perr' = IF erred = 1 THEN [perr EXCEPT ![d] = NoErr] ELSE perr
    /\ UNCHANGED <<ctxErr, servePc, localConn, remoteConn, n, avail,
                   sentBytes, receivedBytes, erred, wait, log, report,
                   crashed, written, closes, trigger>>
    /\ UNCHANGED <<credVars, authVars>>

\* err, lines 163-165: if err != io.EOF { p.log.Warn(message, zap.Error(err)) }.
ErrLog(d) ==
    /\ ~crashed
    /\ pc[d] = "errLog"
    /\ log' = IF perr[d].err # EOF THEN Append(log, perr[d]) ELSE log
    /\ pc' = [pc EXCEPT ![d] = "errStore"]
    /\ perr' = [perr EXCEPT ![d] = NoErr]
    /\ UNCHANGED <<ctxErr, servePc, localConn, remoteConn, n, avail,
                   sentBytes, receivedBytes, erred, wait, report, crashed,
                   written, closes, trigger>>
    /\ UNCHANGED <<credVars, authVars>>

\* err, line 167: atomic.StoreUint32(&p.erred, 1).
ErrStore(d) ==
    /\ ~crashed
    /\ pc[d] = "errStore"
    /\ erred' = 1
    /\ pc' = [pc EXCEPT ![d] = "errSelect"]
    /\ UNCHANGED <<ctxErr, servePc, localConn, remoteConn, n, perr, avail,
                   sentBytes, receivedBytes, wait, log, report, crashed,
                   written, closes, trigger>>
    /\ UNCHANGED <<credVars, authVars>>

\* err, lines 169-172: select { case <-p.wait: ... default: ... }.
ErrSelect(d) ==
    /\ ~crashed
    /\ pc[d] = "errSelect"
    /\ pc' = [pc EXCEPT ![d] = IF wait = "closed" THEN "done" ELSE "errClose"]
    /\ UNCHANGED <<ctxErr, servePc, localConn, remoteConn, n, perr, avail,
                   sentBytes, receivedBytes, erred, wait, log, report,
                   crashed, written, closes, trigger>>
    /\ UNCHANGED <<credVars, authVars>>

\* err, line 173: close(p.wait).  Closing a closed channel panics, and no
\* pipe goroutine recovers: the process ends.
ErrClose(d) ==
    /\ ~crashed
    /\ pc[d] = "errClose"
    /\ closes' = closes + 1
    /\ IF wait = "closed"
       THEN /\ crashed' = TRUE
            /\ pc' = [pc EXCEPT ![d] = "panic"]
            /\ UNCHANGED wait
       ELSE /\ wait' = "closed"
            /\ pc' = [pc EXCEPT ![d] = "done"]
            /\ UNCHANGED crashed
    /\ UNCHANGED <<ctxErr, servePc, localConn, remoteConn, n, perr, avail,
                   sentBytes, receivedBytes, erred, log, report, written,
                   trigger>>
    /\ UNCHANGED <<credVars, authVars>>

RelayNext ==
    \/ CancelCtx
    \/ ServeDial
    \/ ServeGo1
    \/ ServeGo2
    \/ ServeWait
    \/ ServeLoadSent
    \/ ServeLoadReceived
    \/ ServeCloseRemote
    \/ ServeCloseLocal
    \/ \E d \in Dirs : PipeCtx(d)
    \/ \E d \in Dirs : PipeRead(d)
    \/ \E d \in Dirs : PipeWrite(d)
    \/ \E d \in Dirs : PipeAdd(d)
    \/ \E d \in Dirs : ErrLoad(d)
    \/ \E d \in Dirs : ErrLog(d)
    \/ \E d \in Dirs : ErrStore(d)
    \/ \E d \in Dirs : ErrSelect(d)
    \/ \E d \in Dirs : ErrClose(d)

(***************************************************************************)
(* Credential check: Credentials.Valid (part_002, lines 307-345)           *)
(***************************************************************************)

\* Passwords are byte strings over a two-letter alphabet, MaxPwLen long at
\* most.
MaxPwLen == 2

RECURSIVE SeqsUpTo(_, _)
SeqsUpTo(S, len) ==
    IF len = 0 THEN {<<>>}
    ELSE LET shorter == SeqsUpTo(S, len - 1)
         IN  shorter \cup {Append(q, b) : q \in {x \in shorter : Len(x) = len - 1}, b \in S}

Passwords == SeqsUpTo({1, 2}, MaxPwLen)

\* bcrypt keys the cipher with the first bytes of the password only (72 in
\* golang.org/x/crypto/bcrypt; scaled to the model's password length), so
\* passwords that agree on them verify against the same hash.
BcryptKeyLen == 1

BcryptKey(password) == SubSeq(password, 1, Min(Len(password), BcryptKeyLen))

\* A stored hash, as htpasswd holds it; s.htpasswd[user] of an unknown user is
\* the empty string.
HashOf(password) == <<"$2y$", BcryptKey(password)>>

EmptyHash == <<>>

Hashes == {HashOf(q) : q \in Passwords \ {<<>>}}

\* nil == bcrypt.CompareHashAndPassword(hashedPWb, plainPWb)
BcryptOK(hashedPW, password) ==
    /\ hashedPW # EmptyHash
    /\ hashedPW = HashOf(password)

\* murmur3.New64(); hasher.Write(plainPWb); hasher.Sum(nil): a fingerprint
\* in a space of FpSpace values (2^64 in the code), fewer than there are
\* passwords.
FpSpace == 3

RECURSIVE MurmurFrom(_, _, _)
MurmurFrom(password, i, h) ==
    IF i > Len(password) THEN h
    ELSE MurmurFrom(password, i + 1, (h * 3 + password[i]) % FpSpace)

Murmur(password) == MurmurFrom(password, 1, 0)

\* const defaultBasicAuthTTL = 90 * time.Second
defaultBasicAuthTTL == 90

\* The clock advances by TickStep seconds, up to MaxClock.
TickStep == 60
MaxClock == 120

KnownUsers == {"alice", "bob"}
AllUsers == KnownUsers \cup {"mallory"}

NoEntry == [fp |-> -1, exp |-> -1]

NoHist == [by |-> <<>>, ok |-> <<>>]

NoValid == [user |-> None, password |-> <<>>, result |-> FALSE,
            bcrypt |-> FALSE, hit |-> FALSE, repeat |-> FALSE]

\* hashedPW := s.htpasswd[user]
HashedPW(user) == IF user \in DOMAIN htpasswd THEN htpasswd[user] ELSE EmptyHash

\* basicAuthCache.Get(k): go-cache answers an entry until its expiration has
\* passed.
CacheGet(k) ==
    IF basicAuthCache[k] # NoEntry /\ now <= basicAuthCache[k].exp
    THEN basicAuthCache[k]
    ELSE NoEntry

\* basicAuthCache.Set(k, x, d)
CacheSet(k, x, d) == [basicAuthCache EXCEPT ![k] = [fp |-> x, exp |-> now + d]]

\* Mutant of Valid: an entry in the cache is trusted without comparing the
\* fingerprints.
ValidTrustsCache(user, password) ==
    LET hashedPW   == HashedPW(user)
        cachedPass == CacheGet(hashedPW)
        inCache    == cachedPass # NoEntry
        ok         == BcryptOK(hashedPW, password)
    IN  IF disableCaching
        THEN [result |-> ok, bcrypt |-> TRUE, hit |-> FALSE,
              cache |-> basicAuthCache]
        ELSE IF ~inCache
        THEN IF ~ok
             THEN [result |-> FALSE, bcrypt |-> TRUE, hit |-> FALSE,
                   cache |-> basicAuthCache]
             ELSE [result |-> TRUE, bcrypt |-> TRUE, hit |-> FALSE,
                   cache |-> CacheSet(hashedPW, Murmur(password),
                                      defaultBasicAuthTTL)]
        ELSE [result |-> TRUE, bcrypt |-> FALSE, hit |-> TRUE,
              cache |-> basicAuthCache]

\* Mutant of Valid: on a cache miss the fingerprint is stored whatever bcrypt
\* answered.
ValidCachesAnyway(user, password) ==
    LET hashedPW   == HashedPW(user)
        cachedPass == CacheGet(hashedPW)
        inCache    == cachedPass # NoEntry
        ok         == BcryptOK(hashedPW, password)
    IN  IF disableCaching
        THEN [result |-> ok, bcrypt |-> TRUE, hit |-> FALSE,
              cache |-> basicAuthCache]
        ELSE IF ~inCache
        THEN [result |-> ok, bcrypt |-> TRUE, hit |-> FALSE,
              cache |-> CacheSet(hashedPW, Murmur(password),
                                 defaultBasicAuthTTL)]
        ELSE IF cachedPass.fp # Murmur(password)
        THEN [result |-> ok, bcrypt |-> TRUE, hit |-> FALSE,
              cache |-> basicAuthCache]
        ELSE [result |-> TRUE, bcrypt |-> FALSE, hit |-> TRUE,
              cache |-> basicAuthCache]

\* Mutant of Valid: the disableCaching switch is not looked at.
ValidIgnoresSwitch(user, password) ==
    LET hashedPW   == HashedPW(user)
        cachedPass == CacheGet(hashedPW)
        inCache    == cachedPass # NoEntry
        ok         == BcryptOK(hashedPW, password)
    IN  IF ~inCache
        THEN IF ~ok
             THEN [result |-> FALSE, bcrypt |-> TRUE, hit |-> FALSE,
                   cache |-> basicAuthCache]
             ELSE [result |-> TRUE, bcrypt |-> TRUE, hit |-> FALSE,
                   cache |-> CacheSet(hashedPW, Murmur(password),
                                      defaultBasicAuthTTL)]
        ELSE IF cachedPass.fp # Murmur(password)
        THEN [result |-> ok, bcrypt |-> TRUE, hit |-> FALSE,
              cache |-> basicAuthCache]
        ELSE [result |-> TRUE, bcrypt |-> FALSE, hit |-> TRUE,
              cache |-> basicAuthCache]

\* Credentials.Valid(user, password): the boolean it returns, whether it ran
\* bcrypt, whether it returned on the cached fingerprint, and the cache it
\* leaves.
Valid(user, password) ==
    LET hashedPW   == HashedPW(user)
        cachedPass == CacheGet(hashedPW)
        inCache    == cachedPass # NoEntry
        ok         == BcryptOK(hashedPW, password)
    IN  IF disableCaching
        THEN [result |-> ok, bcrypt |-> TRUE, hit |-> FALSE,
              cache |-> basicAuthCache]
        ELSE IF ~inCache
        THEN IF ~ok
             THEN [result |-> FALSE, bcrypt |-> TRUE, hit |-> FALSE,
                   cache |-> basicAuthCache]
             ELSE [result |-> TRUE, bcrypt |-> TRUE, hit |-> FALSE,
                   cache |-> CacheSet(hashedPW, Murmur(password),
                                      defaultBasicAuthTTL)]
        ELSE IF cachedPass.fp # Murmur(password)
        THEN [result |-> ok, bcrypt |-> TRUE, hit |-> FALSE,
              cache |-> basicAuthCache]
        ELSE [result |-> TRUE, bcrypt |-> FALSE, hit |-> TRUE,
              cache |-> basicAuthCache]

CredInit ==
    /\ disableCaching \in BOOLEAN
    /\ htpasswd \in [KnownUsers -> Hashes]
    /\ basicAuthCache = [k \in Hashes \cup {EmptyHash} |-> NoEntry]
    /\ now = 0
    /\ cacheHist = [k \in Hashes \cup {EmptyHash} |-> NoHist]
    /\ lastValid = NoValid

CredIdle ==
    /\ disableCaching = FALSE
    /\ htpasswd = <<>>
    /\ basicAuthCache = <<>>
    /\ now = 0
    /\ cacheHist = <<>>
    /\ lastValid = NoValid

\* The protocol library calls Valid(user, password).  History: the password
\* that wrote the entry of the stored hash, and the passwords that passed
\* while that entry has been in the cache.
ValidCall ==
    /\ \E user \in AllUsers, password \in Passwords :
          LET r        == Valid(user, password)
              hashedPW == HashedPW(user)
              wrote    == r.cache[hashedPW] # basicAuthCache[hashedPW]
              live     == ~disableCaching /\ CacheGet(hashedPW) # NoEntry
          IN  /\ basicAuthCache' = r.cache
              /\ cacheHist' =
                    IF wrote
                    THEN [cacheHist EXCEPT ![hashedPW] =
                              [by |-> password, ok |-> password]]
                    ELSE IF live /\ r.result
                    THEN [cacheHist EXCEPT ![hashedPW].ok = password]
                    ELSE cacheHist
              /\ lastValid' = [user |-> user, password |-> password,
                               result |-> r.result, bcrypt |-> r.bcrypt,
                               hit |-> r.hit,
                               repeat |-> live /\ password = cacheHist[hashedPW].ok]
    /\ UNCHANGED <<disableCaching, htpasswd, now>>
    /\ UNCHANGED <<relayVars, authVars>>

\* Time passes.
Tick ==
    /\ now + TickStep <= MaxClock
    /\ now' = now + TickStep
    /\ UNCHANGED <<disableCaching, htpasswd, basicAuthCache, cacheHist,
                   lastValid>>
    /\ UNCHANGED <<relayVars, authVars>>

CredNext ==
    \/ ValidCall
    \/ Tick

(***************************************************************************)
(* Access policy: newAuthenticator, resolveNames, authenticator.Allow      *)
(* (part_002, lines 347-443)                                               *)
(***************************************************************************)

Names == {"svc-a", "svc-b"}
IPs   == {"10.0.0.5", "10.0.0.6"}
Ports == {22, 443}

\* type Destination struct { Users []string; Ports []int }.  The code only
\* tests membership in the two slices, so each is a set here.
DestinationSet == [Users : {{}, {"alice"}}, Ports : {{443}, {22, 443}}]

\* A request: DestAddr.IP, DestAddr.Port and AuthContext.Payload["Username"]
\* (None: the payload holds no username).
Requests == [ip : IPs, port : Ports, user : {None, "alice", "bob"}]

\* A nil map.
NilMap == <<>>

\* The orders in which a range over a map with the keys S may visit them.
OrdersOf(S) ==
    {o \in [1..Cardinality(S) -> S] : \A i, j \in 1..Cardinality(S) : i # j => o[i] # o[j]}

\* net.LookupHost(name): the addresses, or an error (no address: {}).
LookupErr(name) == dns[name] = {}

\* resolveNames(names), lines 382-392.
RECURSIVE resolveFrom(_, _, _)
resolveFrom(names, i, newResolvedNames) ==
    IF i > Len(names) THEN [err |-> FALSE, names |-> newResolvedNames]
    ELSE IF LookupErr(names[i]) THEN [err |-> TRUE, names |-> NilMap]
    ELSE resolveFrom(names, i + 1, newResolvedNames @@ (names[i] :> dns[names[i]]))

resolveNames(names) == resolveFrom(names, 1, NilMap)

\* Mutant of Decide: any request that carries a username passes a user list.
DecideAnyUser(destination, req) ==
    IF destination.Users = {} THEN TRUE
    ELSE req.user # None

\* Allow, lines 408-434: the decision at the first allowed port that equals
\* the request's.
Decide(destination, req) ==
    IF destination.Users = {} THEN TRUE
    ELSE IF req.user = None THEN FALSE
    ELSE req.user \in destination.Users

\* Mutant of Matches: the port is not compared.
MatchesAnyPort(resolved, dests, name, req) ==
    /\ req.ip \in resolved[name]
    /\ name \in DOMAIN dests

\* Allow, lines 402-407: some resolved ip of the name is the request's, the
\* name has a destination, and one of its ports is the request's.
Matches(resolved, dests, name, req) ==
    /\ req.ip \in resolved[name]
    /\ name \in DOMAIN dests
    /\ req.port \in dests[name].Ports

\* Allow, lines 400-442: the names are visited in the order the range over
\* the map yields; the first match returns its decision, no match denies.
RECURSIVE AllowFrom(_, _, _, _, _)
AllowFrom(resolved, dests, order, i, req) ==
    IF i > Len(order) THEN FALSE
    ELSE IF Matches(resolved, dests, order[i], req)
    THEN Decide(dests[order[i]], req)
    ELSE AllowFrom(resolved, dests, order, i + 1, req)

Allow(order, req) == AllowFrom(resolvedNames, Destinations, order, 1, req)

NoAllow == [req |-> [ip |-> "", port |-> 0, user |-> None], allowed |-> FALSE,
            called |-> FALSE]

\* The maps that hold some of the entries of m.
SubMaps(m) == {[name \in D |-> m[name]] : D \in SUBSET DOMAIN m}

\* sa.resolvedNames = resolvedNames in the goroutine (line 374) is a plain
\* store and the range of Allow (line 400) a plain load, with nothing that
\* orders the two: a data race.  A load that yields the new map finds in it,
\* until the stores of the goroutine are visible to the loading goroutine,
\* any part of the entries the goroutine wrote.  (A load that still yields
\* the old map is a call of Allow before the store.)
RacyReads(new) == SubMaps(new) \ {new}

AuthInit ==
    /\ Destinations \in [Names -> DestinationSet]
    /\ dns \in [Names -> SUBSET IPs]
    /\ authState = "unbuilt"
    /\ resolvedNames = NilMap
    /\ refresher = None
    /\ authLog = <<>>
    /\ racy = {}
    /\ lastAllow = NoAllow

AuthIdle ==
    /\ Destinations = <<>>
    /\ dns = <<>>
    /\ authState = "unbuilt"
    /\ resolvedNames = NilMap
    /\ refresher = None
    /\ authLog = <<>>
    /\ racy = {}
    /\ lastAllow = NoAllow

\* Mutant of NewAuthenticator: the goroutine is started before the error of
\* the first resolution is looked at.
NewAuthenticatorSpawnsFirst ==
    /\ authState = "unbuilt"
    /\ \E names \in OrdersOf(DOMAIN Destinations) :
          LET r == resolveNames(names)
          IN  /\ refresher' = "sleeping"
              /\ IF r.err
                 THEN /\ authState' = "failed"
                      /\ UNCHANGED resolvedNames
                 ELSE /\ authState' = "ready"
                      /\ resolvedNames' = r.names
    /\ UNCHANGED <<Destinations, dns, authLog, racy, lastAllow>>
    /\ UNCHANGED <<relayVars, credVars>>

\* newAuthenticator, lines 353-380: the names are resolved; on an error nil
\* and the error are returned (main then ends the process); else the snapshot
\* is stored and the goroutine started.
NewAuthenticator ==
    /\ authState = "unbuilt"
    /\ \E names \in OrdersOf(DOMAIN Destinations) :
          LET r == resolveNames(names)
          IN  IF r.err
              THEN /\ authState' = "failed"
                   /\ UNCHANGED <<resolvedNames, refresher>>
              ELSE /\ authState' = "ready"
                   /\ resolvedNames' = r.names
                   /\ refresher' = "sleeping"
    /\ UNCHANGED <<Destinations, dns, authLog, racy, lastAllow>>
    /\ UNCHANGED <<relayVars, credVars>>

\* Mutant of Refresh: the result of the resolution is stored whether or not
\* it failed.
RefreshStoresAnyway ==
    /\ refresher = "sleeping"
    /\ \E names \in OrdersOf(DOMAIN Destinations) :
          LET r == resolveNames(names)
          IN  /\ resolvedNames' = r.names
              /\ racy' = RacyReads(r.names)
              /\ authLog' = IF r.err
                            THEN Append(authLog, "could not resolve names")
                            ELSE authLog
    /\ refresher' = "done"
    /\ UNCHANGED <<Destinations, dns, authState, lastAllow>>
    /\ UNCHANGED <<relayVars, credVars>>

\* The goroutine of newAuthenticator, lines 369-378: after the sleep the names
\* are resolved once more; the snapshot is replaced, or the error is logged;
\* the goroutine ends.
Refresh ==
    /\ refresher = "sleeping"
    /\ \E names \in OrdersOf(DOMAIN Destinations) :
          LET r == resolveNames(names)
          IN  IF ~r.err
              THEN /\ resolvedNames' = r.names
                   /\ racy' = RacyReads(r.names)
                   /\ UNCHANGED authLog
              ELSE /\ authLog' = Append(authLog, "could not resolve names")
                   /\ UNCHANGED <<resolvedNames, racy>>
    /\ refresher' = "done"
    /\ UNCHANGED <<Destinations, dns, authState, lastAllow>>
    /\ UNCHANGED <<relayVars, credVars>>

\* The stores of the goroutine have reached every processor: from here on a
\* load of sa.resolvedNames yields the new map, whole.
StoresVisible ==
    /\ racy # {}
    /\ racy' = {}
    /\ UNCHANGED <<Destinations, dns, authState, resolvedNames, refresher,
                   authLog, lastAllow>>
    /\ UNCHANGED <<relayVars, credVars>>

\* The name service changes its answer for one name.
DnsChange ==
    /\ authState # "failed"
    /\ \E name \in Names, addrs \in SUBSET IPs :
          /\ addrs # dns[name]
          /\ dns' = [dns EXCEPT ![name] = addrs]
    /\ UNCHANGED <<Destinations, authState, resolvedNames, refresher,
                   authLog, racy, lastAllow>>
    /\ UNCHANGED <<relayVars, credVars>>

\* The protocol library calls Allow(ctx, req).  The range statement of line
\* 400 loads sa.resolvedNames once and visits the map it got.
AllowCall ==
    /\ authState = "ready"
    /\ \E req \in Requests, seen \in {resolvedNames} \cup racy :
          \E order \in OrdersOf(DOMAIN seen) :
              lastAllow' = [req |-> req,
                            allowed |-> AllowFrom(seen, Destinations, order, 1, req),
                            called |-> TRUE]
    /\ UNCHANGED <<Destinations, dns, authState, resolvedNames, refresher,
                   authLog, racy>>
    /\ UNCHANGED <<relayVars, credVars>>

AuthNext ==
    \/ NewAuthenticator
    \/ Refresh
    \/ StoresVisible
    \/ DnsChange
    \/ AllowCall

InitRelay == RelayInit /\ CredIdle /\ AuthIdle
NextRelay == RelayNext
SpecRelay == InitRelay /\ [][NextRelay]_vars

\* The Go scheduler runs every runnable goroutine, the dial has a timeout
\* (line 84), and both connections carry a deadline (lines 99-101), so a Read
\* or a Write returns: every step of serve, pipe and err that can be taken is
\* taken.  Nothing obliges the process to receive a signal.
RelayFairness ==
    /\ WF_vars(ServeDial)
    /\ WF_vars(ServeGo1)
    /\ WF_vars(ServeGo2)
    /\ WF_vars(ServeWait)
    /\ WF_vars(ServeLoadSent)
    /\ WF_vars(ServeLoadReceived)
    /\ WF_vars(ServeCloseRemote)
    /\ WF_vars(ServeCloseLocal)
    /\ \A d \in Dirs :
          /\ WF_vars(PipeCtx(d))
          /\ WF_vars(PipeRead(d))
          /\ WF_vars(PipeWrite(d))
          /\ WF_vars(PipeAdd(d))
          /\ WF_vars(ErrLoad(d))
          /\ WF_vars(ErrLog(d))
          /\ WF_vars(ErrStore(d))
          /\ WF_vars(ErrSelect(d))
          /\ WF_vars(ErrClose(d))

SpecRelayFair == SpecRelay /\ RelayFairness

InitCred == CredInit /\ RelayIdle /\ AuthIdle
NextCred == CredNext
SpecCred == InitCred /\ [][NextCred]_vars

InitAuth == AuthInit /\ RelayIdle /\ CredIdle
NextAuth == AuthNext
SpecAuth == InitAuth /\ [][NextAuth]_vars

(***************************************************************************)
(* Properties of the relay (SpecRelay)                                     *)
(***************************************************************************)

PipesReturned == \A d \in Dirs : pc[d] \in {"done", "noop"}

\* The calls of p.err that went past the guard of line 160.
Reporters ==
    {d \in Dirs : pc[d] \in {"errLog", "errStore", "errSelect", "errClose",
                             "done", "panic"}}

\* C1: in one session close(p.wait) is executed at most once, whatever the
\* interleaving of the two calls of p.err, and never on a closed channel (no
\* panic); a closed gate was closed by exactly one close.
C1_GateClosedOnce ==
    /\ closes <= 1
    /\ ~crashed
    /\ (wait = "closed" => closes = 1)

\* C9: at most one call of p.err goes past its guard and performs the
\* side-effects (the Warn record, the release of the gate); what is logged is
\* the first call's error only.
C9_OneReporter ==
    /\ Cardinality(Reporters) <= 1
    /\ Len(log) <= 1
    /\ \A i \in 1..Len(log) : log[i] = [msg |-> trigger.msg, err |-> trigger.err]

\* C10: when the first call of p.err carries io.EOF the session logs no
\* error and the gate is released once that call has returned; when it carries
\* any other error, that error is in the log once the call has returned.
C10_EofIsNotReported ==
    /\ trigger.err = EOF => log = <<>>
    /\ (trigger.dir # None /\ pc[trigger.dir] \in {"done", "noop"}) =>
          /\ wait = "closed"
          /\ trigger.err # EOF =>
                \E i \in 1..Len(log) : log[i] = [msg |-> trigger.msg, err |-> trigger.err]

\* C6: when both pipes have returned and the session ended on a clean
\* end-of-stream with no error logged, sentBytes + receivedBytes is the number
\* of bytes the two destinations took; no counter ever exceeds what its
\* destination took.
C6_CountersEqualBytesWritten ==
    /\ sentBytes <= written["toRemote"]
    /\ receivedBytes <= written["toLocal"]
    /\ (PipesReturned /\ trigger.err = EOF /\ log = <<>>) =>
          sentBytes + receivedBytes = written["toRemote"] + written["toLocal"]

\* C11: when serve has returned, localConn is closed, and remoteConn is closed
\* if the dial gave one; in a session that dialled, neither endpoint is closed
\* while the gate p.wait is still open.
C11_EndpointsReleased ==
    /\ servePc = "returned" =>
          /\ localConn = "closed"
          /\ remoteConn \in {"none", "closed"}
    /\ (remoteConn # "none" /\ wait = "open") =>
          /\ localConn = "open"
          /\ remoteConn = "open"

\* C11, witness: serve returned after a relay, with both endpoints closed and
\* both pipes returned.
C11_Witness ==
    /\ servePc = "returned"
    /\ localConn = "closed"
    /\ remoteConn = "closed"
    /\ wait = "closed"
    /\ PipesReturned

\* C12, as claimed: once the context is cancelled, a pipe that is in a read
\* or a write leaves it by observing the cancellation (p.err with ctx.Err()),
\* not by the read or the write completing.
C12_CancelInterruptsPending ==
    [][ \A d \in Dirs :
          (ctxErr /\ pc[d] \in {"read", "write"} /\ pc'[d] # pc[d]) =>
              /\ pc'[d] = "err"
              /\ perr'[d] = [msg |-> "context error", err |-> "context canceled"]
      ]_vars

\* C14, as claimed: what serve has loaded for the report is the value of the
\* counter from then on: no pipe adds to a counter serve has read.
C14_ReportIsFinal ==
    /\ report.bytes_sent # -1 => report.bytes_sent = sentBytes
    /\ report.bytes_received # -1 => report.bytes_received = receivedBytes

\* C19: once the gate p.wait is closed, both pipes return (or the process has
\* ended, and every goroutine with it): no pipe runs forever.
C19_PipesTerminate ==
    (wait = "closed") ~> (crashed \/ PipesReturned)

\* C19, witness: the gate was released by one pipe, which has returned, while
\* the other was still relaying; serve has returned and closed the endpoints,
\* and the other pipe is leaving on the failure of its read or write on a
\* closed endpoint.
C19_Witness ==
    /\ servePc = "returned"
    /\ wait = "closed"
    /\ ~crashed
    /\ \E d, e \in Dirs :
          /\ pc[d] = "done"
          /\ pc[e] = "err"
          /\ perr[e].err = "closed"

\* C20, as claimed: a session whose dial succeeded gets to the point where
\* serve has unblocked and written its "request served" record.
C20_SessionCompletes ==
    (servePc = "go1") ~> (report.bytes_received # -1)

(***************************************************************************)
(* Properties of the credential check (SpecCred)                           *)
(***************************************************************************)

LastHash == HashedPW(lastValid.user)

LastBcrypt == BcryptOK(LastHash, lastValid.password)

\* C2, as claimed: every call of Valid returns what bcrypt returns for the
\* stored hash and the submitted password.
C2_ValidEqualsBcrypt ==
    lastValid.user # None => lastValid.result = LastBcrypt

\* C2, amended: every call of Valid returns what bcrypt returns, except that
\* with caching enabled a password whose fingerprint equals the cached
\* fingerprint, written by a different password that bcrypt verified for the
\* same stored hash, is accepted on the cached fingerprint.  With caching
\* disabled, and for a username without a stored hash, Valid is bcrypt.
C2_ValidEqualsBcryptUpToFingerprint ==
    lastValid.user # None =>
        \/ lastValid.result = LastBcrypt
        \/ /\ ~disableCaching
           /\ LastHash # EmptyHash
           /\ lastValid.result
           /\ lastValid.hit
           /\ cacheHist[LastHash].by # lastValid.password
           /\ Murmur(cacheHist[LastHash].by) = Murmur(lastValid.password)
           /\ BcryptOK(LastHash, cacheHist[LastHash].by)

\* C2, witness: a call answered from the cache, for a password another call
\* had verified, agrees with bcrypt.
C2_Witness ==
    /\ lastValid.hit
    /\ lastValid.result
    /\ LastBcrypt
    /\ now > 0

\* C4, as claimed (first part): a password that passed Valid for a stored
\* hash, submitted again for that hash while the hash's cache entry has not
\* expired, passes without bcrypt being run.
C4_RepeatSkipsBcrypt ==
    lastValid.repeat => (lastValid.result /\ ~lastValid.bcrypt)

\* C15, as claimed: with caching enabled, a call of Valid in which bcrypt ran
\* and passed leaves, under the stored hash, the fingerprint of the password
\* of that call, expiring defaultBasicAuthTTL from now.
C15_CacheWrittenAfterEveryBcrypt ==
    [][ (now' = now /\ ~disableCaching /\ lastValid'.bcrypt /\ lastValid'.result) =>
          basicAuthCache'[HashedPW(lastValid'.user)] =
              [fp |-> Murmur(lastValid'.password), exp |-> now + defaultBasicAuthTTL]
      ]_vars

\* C16: every cache entry is under a stored hash (never the empty string of
\* an unknown user), holds the fingerprint of the password of the call that
\* wrote it, and bcrypt passes that password for that hash; a step that
\* changes the cache is a call of Valid that ran bcrypt and returned true.
C16_EntriesComeFromBcrypt ==
    /\ [](\A k \in DOMAIN basicAuthCache :
            basicAuthCache[k] # NoEntry =>
                /\ k # EmptyHash
                /\ BcryptOK(k, cacheHist[k].by)
                /\ basicAuthCache[k].fp = Murmur(cacheHist[k].by))
    /\ [][ basicAuthCache' # basicAuthCache =>
              (lastValid'.result /\ lastValid'.bcrypt) ]_vars

\* C16, witness: a call of Valid for a stored hash that has an unexpired
\* entry ran bcrypt and returned false.
C16_Witness ==
    /\ lastValid.user # None
    /\ ~lastValid.result
    /\ lastValid.bcrypt
    /\ LastHash # EmptyHash
    /\ CacheGet(LastHash) # NoEntry

\* C17: with disableCaching set, every call of Valid runs bcrypt and returns
\* what it answers, never answers from the cache, and the cache stays empty.
C17_DisabledCachingIsBcryptOnly ==
    disableCaching =>
        /\ \A k \in DOMAIN basicAuthCache : basicAuthCache[k] = NoEntry
        /\ lastValid.user # None =>
              /\ lastValid.bcrypt
              /\ ~lastValid.hit
              /\ lastValid.result = LastBcrypt

\* C17, witness: with disableCaching set, a call of Valid returned true.
C17_Witness ==
    /\ disableCaching
    /\ lastValid.user # None
    /\ lastValid.result
    /\ lastValid.bcrypt

(***************************************************************************)
(* Properties of the access policy (SpecAuth)                              *)
(***************************************************************************)

\* The policy entry of name has ip in its resolved set and port in its ports.
EntryHas(name, req) ==
    /\ name \in DOMAIN resolvedNames
    /\ req.ip \in resolvedNames[name]
    /\ req.port \in Destinations[name].Ports

EntriesFor(req) == {name \in Names : EntryHas(name, req)}

Visits == OrdersOf(DOMAIN resolvedNames)

\* C3, as claimed: Allow denies a request no entry has, and allows a request
\* that some entry without users has, whatever the other entries.
C3_OpenEntryAlwaysAllows ==
    authState = "ready" =>
        \A req \in Requests, order \in Visits :
            /\ EntriesFor(req) = {} => ~Allow(order, req)
            /\ (\E name \in EntriesFor(req) : Destinations[name].Users = {})
                  => Allow(order, req)

\* C3, amended: Allow denies a request no entry has, and allows a request
\* that some entry without users has, provided every other entry that has the
\* request's ip and port is without users too or lists the request's username.
C3_OpenEntryAllowsUnlessShadowed ==
    authState = "ready" =>
        \A req \in Requests, order \in Visits :
            /\ EntriesFor(req) = {} => ~Allow(order, req)
            /\ ( /\ \E name \in EntriesFor(req) : Destinations[name].Users = {}
                 /\ \A name \in EntriesFor(req) :
                       \/ Destinations[name].Users = {}
                       \/ req.user \in Destinations[name].Users )
                  => Allow(order, req)

\* C3, witness: a call was allowed for a request that an entry without users
\* and an entry listing the request's user both have.
C3_Witness ==
    /\ lastAllow.called
    /\ lastAllow.allowed
    /\ \E a, b \in EntriesFor(lastAllow.req) :
          /\ Destinations[a].Users = {}
          /\ lastAllow.req.user \in Destinations[b].Users

\* C7: for a request that exactly one entry has, that entry listing users,
\* Allow allows exactly when the request carries a username of the list.
C7_UserListDecides ==
    authState = "ready" =>
        \A req \in Requests, order \in Visits, name \in Names :
            (EntriesFor(req) = {name} /\ Destinations[name].Users # {}) =>
                (Allow(order, req) <=>
                    (req.user # None /\ req.user \in Destinations[name].Users))

\* C7, witness: calls for such a request: one allowed for a listed user.
C7_Witness ==
    /\ lastAllow.called
    /\ lastAllow.allowed
    /\ \E name \in Names :
          /\ EntriesFor(lastAllow.req) = {name}
          /\ Destinations[name].Users # {}
          /\ lastAllow.req.user \in Destinations[name].Users

SomeLookupFails == \E name \in Names : dns[name] = {}

\* C5: the step of the refresh goroutine in which the resolution fails leaves
\* the snapshot as it was, so Allow decides every request as before; one
\* record is logged and the authenticator stays in service.
C5_FailedRefreshKeepsSnapshot ==
    [][ (refresher = "sleeping" /\ refresher' = "done" /\ SomeLookupFails) =>
          /\ resolvedNames' = resolvedNames
          /\ authState' = "ready"
          /\ authLog' = Append(authLog, "could not resolve names")
          /\ \A req \in Requests, order \in Visits :
                AllowFrom(resolvedNames', Destinations', order, 1, req)
                  = AllowFrom(resolvedNames, Destinations, order, 1, req)
      ]_vars

\* C5, witness: the refresh has failed and an Allow call was served after it
\* was built.
C5_Witness ==
    /\ refresher = "done"
    /\ authLog = <<"could not resolve names">>
    /\ authState = "ready"
    /\ lastAllow.called
    /\ lastAllow.allowed

\* C8: newAuthenticator returns in one step.  When a lookup fails there is no
\* authenticator and no goroutine, then and ever after; otherwise the
\* snapshot holds, for every policy name, the addresses the lookup gave, and
\* the goroutine is started.
C8_ConstructionIsFailFast ==
    /\ [](authState = "failed" => (refresher = None /\ resolvedNames = NilMap))
    /\ [][ (authState = "unbuilt" /\ authState' # "unbuilt") =>
             IF SomeLookupFails
             THEN /\ authState' = "failed"
                  /\ refresher' = None
                  /\ resolvedNames' = NilMap
             ELSE /\ authState' = "ready"
                  /\ refresher' = "sleeping"
                  /\ resolvedNames' = [name \in DOMAIN Destinations |-> dns[name]]
         ]_vars

\* C8, witness: construction failed on one name although another resolved.
C8_Witness ==
    /\ authState = "failed"
    /\ \E a, b \in Names : dns[a] = {} /\ dns[b] # {}

\* C13, as claimed: the refresh goroutine is there for the whole life of the
\* authenticator: whenever the authenticator is in service, a refresh cycle
\* is still to come.
C13_RefreshRecurs ==
    authState = "ready" => refresher = "sleeping"

\* C18, as claimed: every call of Allow returns a decision that Allow gives
\* on the whole snapshot that sa.resolvedNames holds when the call loads it
\* (the old one before the store of the refresh, the new one after it).
C18_AllowDecidesOnOneWholeSnapshot ==
    [][ lastAllow' # lastAllow =>
          \E order \in Visits : lastAllow'.allowed = Allow(order, lastAllow'.req)
      ]_vars

\* C21, as claimed: for the policy and the snapshot in place and any
\* request, Allow returns the same decision in whatever order the range over
\* the snapshot visits its entries.
C21_AllowIsOrderIndependent ==
    authState = "ready" =>
        \A req \in Requests, first \in Visits, second \in Visits :
            Allow(first, req) = Allow(second, req)

====
